---- MODULE Spec2Model ----
(***************************************************************************)
(* Model of pkg/stream BaseStream[T] (src/pkg/stream/stream.go): the       *)
(* atomic state word, the lazily created data channel guarded by mu, the   *)
(* error and done channels, and the goroutines that Start spawns.          *)
(*                                                                         *)
(* Every access to memory that another goroutine can observe is one step.  *)
(* A section that runs under s.mu (DataChannel, the closer's data-channel  *)
(* close) is one step: s.dataCh is touched nowhere else.                   *)
(* An unrecovered Go panic ends the process: it is recorded in `panic`     *)
(* and no step is taken afterwards.                                        *)
(***************************************************************************)
EXTENDS Integers, Sequences, FiniteSets, TLC

\* ---------------------------------------------------------------- bounds
MaxBufferSize == 2      \* Config.BufferSize ranges over 0..MaxBufferSize
MaxEmits      == 3      \* Emit calls made in one run; the k-th emits tick k
MaxErrEmits   == 1      \* EmitError calls made from outside the run goroutine
MaxErrBurst   == 11     \* EmitError calls made in ErrSpec, one more than the error channel holds
MaxField      == 1      \* configuration fields range over -MaxField..MaxField
MaxUpdateID   == 3      \* update IDs of snapshots and diffs range over 0..MaxUpdateID
MaxAttempts   == 2      \* Config.MaxReconnectAttempts ranges over 0..MaxAttempts
MaxDelay      == 3      \* ReconnectBaseDelay and ReconnectMaxDelay range over 0..MaxDelay seconds
MaxFailures   == 3      \* failed attempts counted by the backoff controller without a success
MaxOrderQty   == 3      \* Order.Quantity and Order.ExecutedQty range over 0..MaxOrderQty
MaxChans      == 3      \* data channels DataChannel may make (the code makes at most 2)

\* ------------------------------------------------------ program constants
DefaultBufSize == 100   \* DataChannel: bufSize = 100 when BufferSize <= 0
ErrChanCap     == 10    \* NewBaseStream: make(chan error, 10)

Starters == {"s1", "s2"}     \* callers of Start
Stoppers == {"p1"}           \* callers of Stop
Emitters == {"e1"}           \* callers of Emit
ChanIds  == 1..MaxChans
NilChan  == 0                \* s.dataCh == nil
NilCancel == "nil"           \* s.cancel == nil
RunError == 0                \* the error a failing run function returns

States == {"Idle", "Connecting", "Active", "Reconnecting", "Closing", "Closed"}

VARIABLES
    config,          \* s.config
    state,           \* s.state (atomic.Int32)
    stateSynced,     \* the last store to s.state happens-after the write of s.cancel
    dataCh,          \* s.dataCh: NilChan or the id of a made channel
    numChans,        \* channels made so far; ids 1..numChans
    chBuf,           \* chBuf[c]: items buffered in data channel c, oldest first
    chCap,           \* chCap[c]: capacity of data channel c
    chClosed,        \* chClosed[c]: data channel c is closed
    errBuf,          \* items buffered in s.errorCh
    errClosed,       \* s.errorCh is closed
    doneClosed,      \* s.doneCh is closed
    cancel,          \* s.cancel: NilCancel or the Start call whose context it cancels
    ctxDone,         \* ctxDone[s]: the context derived by Start call s is cancelled
    parentCancelled, \* the context handed to Start is cancelled
    pcStart,         \* position of each Start call
    startRet,        \* the error each Start call returned ("none": no return yet)
    pcCloser,        \* position of the closer goroutine of each Start call
    pcRun,           \* position of the run goroutine of each Start call
    pcStop,          \* position of each Stop call
    stopRet,         \* the error the last Stop call returned ("none": no return yet)
    stopSynced,      \* a load of this Stop call observed a store that happens-after the write of s.cancel
    stopPassed,      \* some Stop call found the state neither Closed nor Idle
    pcEmit,          \* position of each Emit call
    emitCh,          \* the channel value DataChannel() returned to the Emit call
    emitVal,         \* the item the Emit call sends
    emitRet,         \* what the last Emit call returned: "true" or "false" ("none": no return)
    emitCount,       \* Emit calls made so far
    errEmits,        \* outside EmitError calls made so far
    received,        \* an item has been received from a data channel
    panic,           \* "none", or the message of the panic that ended the process
    registry,        \* package exchange: the registry map of Register and New (224)
    providerRegistry, \* package exchange: the registry map of RegisterProvider and NewClient (408)
    call,            \* the last call of a package-level function: its inputs and results
    replica,         \* order-book consistency engine: the OrderBookReplica of one symbol
    subState,        \* order-book consistency engine: the state of the order-book subscription
    backoff          \* backoff controller: the BackoffState and the delays it computed

vars == << config, state, stateSynced, dataCh, numChans, chBuf, chCap, chClosed,
           errBuf, errClosed, doneClosed, cancel, ctxDone, parentCancelled,
           pcStart, startRet, pcCloser, pcRun, pcStop, stopRet, stopSynced, stopPassed,
           pcEmit, emitCh, emitVal, emitRet, emitCount, errEmits, received, panic,
           registry, providerRegistry, call, replica, subState, backoff >>

chanVars  == << dataCh, numChans, chBuf, chCap, chClosed >>
errVars   == << errBuf, errClosed >>
startVars == << pcStart, startRet, pcCloser, pcRun >>
stopVars  == << pcStop, stopRet, stopSynced, stopPassed >>
engineVars == << replica, subState, backoff >>
pkgVars   == << registry, providerRegistry, call, engineVars >>
emitVars  == << pcEmit, emitCh, emitVal, emitRet, emitCount >>
streamVars == << config, state, stateSynced, chanVars, errVars, doneClosed, cancel, ctxDone,
                 parentCancelled, startVars, stopVars, emitVars, errEmits, received >>

NilError      == "nil"              \* a nil error
ErrCancelled  == "ErrCancelled"     \* errors.ErrCancelled

\* DefaultConfig(), durations in seconds.
DefaultConfig ==
    [BufferSize |-> 100, Reconnect |-> TRUE, MaxReconnectAttempts |-> 10,
     ReconnectBaseDelay |-> 1, ReconnectMaxDelay |-> 30,
     PingInterval |-> 30, PongTimeout |-> 10]

\* No call of a package-level function has been made.
NoCall == [op |-> "none"]

\* The replica before the first snapshot of its symbol: nothing to apply diffs to.
NoReplica == [bids |-> << >>, asks |-> << >>, sequence |-> 0, lastUpdateID |-> 0, valid |-> FALSE]

\* The BackoffState before any failed attempt; raw and delay are the delay last
\* computed, before and after jitter, in tenths of a second, prev and prevRaw
\* those of the attempt before it (-1: no such attempt since Active).
NoBackoff ==
    [attempt |-> 0, raw |-> -1, delay |-> -1, prevRaw |-> -1, prev |-> -1, exhausted |-> FALSE]

\* The registry map before any registration.
EmptyRegistry == [p \in {} |-> "none"]

SendOnClosed  == "send on closed channel"
CloseOfClosed == "close of closed channel"

\* NewBaseStream(cfg): state Idle (zero value), dataCh nil, errorCh and doneCh made.
NewBaseStream(cfg) ==
    /\ config = cfg
    /\ state = "Idle"
    /\ stateSynced = FALSE
    /\ dataCh = NilChan
    /\ numChans = 0
    /\ chBuf = [c \in ChanIds |-> << >>]
    /\ chCap = [c \in ChanIds |-> 0]
    /\ chClosed = [c \in ChanIds |-> FALSE]
    /\ errBuf = << >>
    /\ errClosed = FALSE
    /\ doneClosed = FALSE
    /\ cancel = NilCancel
    /\ ctxDone = [s \in Starters |-> FALSE]
    /\ parentCancelled = FALSE
    /\ pcStart = [s \in Starters |-> "idle"]
    /\ startRet = [s \in Starters |-> "none"]
    /\ pcCloser = [s \in Starters |-> "none"]
    /\ pcRun = [s \in Starters |-> "none"]
    /\ pcStop = [p \in Stoppers |-> "idle"]
    /\ stopRet = [p \in Stoppers |-> "none"]
    /\ stopSynced = [p \in Stoppers |-> FALSE]
    /\ stopPassed = FALSE
    /\ pcEmit = [e \in Emitters |-> "idle"]
    /\ emitCh = [e \in Emitters |-> NilChan]
    /\ emitVal = [e \in Emitters |-> 0]
    /\ emitRet = [e \in Emitters |-> "none"]
    /\ emitCount = 0
    /\ errEmits = 0
    /\ received = FALSE
    /\ panic = "none"
    /\ registry = EmptyRegistry
    /\ providerRegistry = EmptyRegistry
    /\ call = NoCall
    /\ replica = NoReplica
    /\ subState = "Connecting"
    /\ backoff = NoBackoff

\* The values a field of a configuration takes.
FieldRange == (0 - MaxField)..MaxField

\* The Config values a caller can pass.
Configs ==
    [BufferSize : FieldRange, Reconnect : BOOLEAN, MaxReconnectAttempts : FieldRange,
     ReconnectBaseDelay : FieldRange, ReconnectMaxDelay : FieldRange,
     PingInterval : FieldRange, PongTimeout : FieldRange]

\* A stream constructed with the default configuration and a buffer size of
\* 0..MaxBufferSize.
Init == \E b \in 0..MaxBufferSize : NewBaseStream([DefaultConfig EXCEPT !.BufferSize = b])

\* A stream constructed with any configuration: NewBaseStream takes what it is given.
CtorInit == \E cfg \in Configs : NewBaseStream(cfg)

\* ------------------------------------------------------------- helpers

\* A swap that does not compare: Start would succeed from any state.
swapWithoutCompare(cur, old) == TRUE

\* compareAndSwapState(old, new): whether the swap of a state word holding cur succeeds.
\* A swap that also succeeds on a Closed stream.
swapFromClosed(cur, old) == cur = old \/ cur = "Closed"

compareAndSwapState(cur, old) == cur = old

\* The configured size taken as it is, zero making an unbuffered channel.
BufSizeNoDefault(n) == n

\* DataChannel: the capacity of the channel it makes.
BufSize(n) == IF n <= 0 THEN DefaultBufSize ELSE n

\* DataChannel(): the channel it returns, made now when s.dataCh is nil.
DataChannelValue == IF dataCh = NilChan THEN numChans + 1 ELSE dataCh

\* DataChannel() under s.mu: make the channel when s.dataCh is nil.
DataChannelEffect ==
    IF dataCh = NilChan
    THEN /\ numChans < MaxChans
         /\ dataCh' = numChans + 1
         /\ numChans' = numChans + 1
         /\ chCap' = [chCap EXCEPT ![numChans + 1] = BufSize(config.BufferSize)]
         /\ UNCHANGED << chBuf, chClosed >>
    ELSE UNCHANGED chanVars

\* select { case ch <- v: ...; default: ... } on a channel with the given buffer,
\* capacity and closed flag: "panic" (closed), "sent" (room) or "default" (full).
TrySend(buf, cap, closed) ==
    IF closed THEN "panic"
    ELSE IF Len(buf) < cap THEN "sent"
    ELSE "default"

\* The buffer after the select above.
BufAfterSend(buf, cap, closed, v) ==
    IF TrySend(buf, cap, closed) = "sent" THEN Append(buf, v) ELSE buf

\* EmitError(err): non-blocking send on s.errorCh.
EmitErrorEffect(err) ==
    /\ errBuf' = BufAfterSend(errBuf, ErrChanCap, errClosed, err)
    /\ panic' = IF TrySend(errBuf, ErrChanCap, errClosed) = "panic" THEN SendOnClosed ELSE panic
    /\ UNCHANGED errClosed

\* The values a read of s.cancel by Stop call p can return.  The read is ordered
\* after the write in Start only when a load of p observed a store that follows
\* the write; otherwise the two race and the read may still return nil.
CancelReads(p) ==
    IF cancel = NilCancel THEN {NilCancel}
    ELSE IF stopSynced[p] THEN {cancel}
    ELSE {NilCancel, cancel}

\* ------------------------------------------------------------- Start

\* Start, line 216: the compare-and-swap Idle -> Connecting; ErrCancelled when it fails.
StartCAS(s) ==
    /\ panic = "none"
    /\ UNCHANGED pkgVars
    /\ pcStart[s] = "idle"
    /\ IF compareAndSwapState(state, "Idle")
       THEN /\ state' = "Connecting"
            /\ stateSynced' = FALSE
            /\ pcStart' = [pcStart EXCEPT ![s] = "withCancel"]
            /\ UNCHANGED startRet
       ELSE /\ pcStart' = [pcStart EXCEPT ![s] = "retErr"]
            /\ startRet' = [startRet EXCEPT ![s] = ErrCancelled]
            /\ UNCHANGED << state, stateSynced >>
    /\ UNCHANGED << config, chanVars, errVars, doneClosed, cancel, ctxDone, parentCancelled,
                    pcCloser, pcRun, stopVars, emitVars, errEmits, received, panic >>

\* Start, lines 220-244: derive the context, store s.cancel, spawn the closer and
\* the run goroutine, return nil.  The goroutines take their first step later.
StartSpawn(s) ==
    /\ panic = "none"
    /\ UNCHANGED pkgVars
    /\ pcStart[s] = "withCancel"
    /\ cancel' = s
    /\ ctxDone' = [ctxDone EXCEPT ![s] = parentCancelled]
    /\ pcCloser' = [pcCloser EXCEPT ![s] = "wait"]
    /\ pcRun' = [pcRun EXCEPT ![s] = "setActive"]
    /\ pcStart' = [pcStart EXCEPT ![s] = "retNil"]
    /\ startRet' = [startRet EXCEPT ![s] = NilError]
    /\ UNCHANGED << config, state, stateSynced, chanVars, errVars, doneClosed, parentCancelled,
                    stopVars, emitVars, errEmits, received, panic >>

\* The caller's context is cancelled: so is every context derived from it.
ParentCancel ==
    /\ panic = "none"
    /\ UNCHANGED pkgVars
    /\ ~parentCancelled
    /\ parentCancelled' = TRUE
    /\ ctxDone' = [s \in Starters |-> ctxDone[s] \/ pcStart[s] = "retNil"]
    /\ UNCHANGED << config, state, stateSynced, chanVars, errVars, doneClosed, cancel,
                    startVars, stopVars, emitVars, errEmits, received, panic >>

\* ------------------------------------------------- closer goroutine (223-234)

\* A closer that leaves the data channel open.
CloserLeaveData(s) ==
    /\ panic = "none"
    /\ UNCHANGED pkgVars
    /\ pcCloser[s] = "wait"
    /\ ctxDone[s]
    /\ pcCloser' = [pcCloser EXCEPT ![s] = "closeErr"]
    /\ UNCHANGED << config, state, stateSynced, chanVars, errVars, doneClosed,
                    cancel, ctxDone, parentCancelled, pcStart, startRet, pcRun, stopVars, emitVars,
                    errEmits, received, panic >>

\* <-ctx.Done(); then under s.mu: close s.dataCh and set it to nil, if not nil.
CloserCloseData(s) ==
    /\ panic = "none"
    /\ UNCHANGED pkgVars
    /\ pcCloser[s] = "wait"
    /\ ctxDone[s]
    /\ IF dataCh # NilChan
       THEN /\ chClosed' = [chClosed EXCEPT ![dataCh] = TRUE]
            /\ panic' = IF chClosed[dataCh] THEN CloseOfClosed ELSE panic
            /\ dataCh' = NilChan
       ELSE UNCHANGED << chClosed, dataCh, panic >>
    /\ pcCloser' = [pcCloser EXCEPT ![s] = "closeErr"]
    /\ UNCHANGED << config, state, stateSynced, numChans, chBuf, chCap, errVars, doneClosed,
                    cancel, ctxDone, parentCancelled, pcStart, startRet, pcRun, stopVars, emitVars,
                    errEmits, received >>

\* close(s.errorCh)
CloserCloseErr(s) ==
    /\ panic = "none"
    /\ UNCHANGED pkgVars
    /\ pcCloser[s] = "closeErr"
    /\ errClosed' = TRUE
    /\ panic' = IF errClosed THEN CloseOfClosed ELSE panic
    /\ pcCloser' = [pcCloser EXCEPT ![s] = "closeDone"]
    /\ UNCHANGED << config, state, stateSynced, chanVars, errBuf, doneClosed, cancel, ctxDone,
                    parentCancelled, pcStart, startRet, pcRun, stopVars, emitVars, errEmits, received >>

\* close(s.doneCh)
CloserCloseDone(s) ==
    /\ panic = "none"
    /\ UNCHANGED pkgVars
    /\ pcCloser[s] = "closeDone"
    /\ doneClosed' = TRUE
    /\ panic' = IF doneClosed THEN CloseOfClosed ELSE panic
    /\ pcCloser' = [pcCloser EXCEPT ![s] = "setClosed"]
    /\ UNCHANGED << config, state, stateSynced, chanVars, errVars, cancel, ctxDone,
                    parentCancelled, pcStart, startRet, pcRun, stopVars, emitVars, errEmits, received >>

\* s.setState(StateClosed)
CloserSetClosed(s) ==
    /\ panic = "none"
    /\ UNCHANGED pkgVars
    /\ pcCloser[s] = "setClosed"
    /\ state' = "Closed"
    /\ stateSynced' = TRUE
    /\ pcCloser' = [pcCloser EXCEPT ![s] = "done"]
    /\ UNCHANGED << config, chanVars, errVars, doneClosed, cancel, ctxDone, parentCancelled,
                    pcStart, startRet, pcRun, stopVars, emitVars, errEmits, received, panic >>

\* --------------------------------------------------- run goroutine (237-242)

\* s.setState(StateActive), then run(ctx) is entered.
RunSetActive(s) ==
    /\ panic = "none"
    /\ UNCHANGED pkgVars
    /\ pcRun[s] = "setActive"
    /\ state' = "Active"
    /\ stateSynced' = TRUE
    /\ pcRun' = [pcRun EXCEPT ![s] = "running"]
    /\ UNCHANGED << config, chanVars, errVars, doneClosed, cancel, ctxDone, parentCancelled,
                    pcStart, startRet, pcCloser, stopVars, emitVars, errEmits, received, panic >>

\* A run goroutine that offers the error whether or not the context is cancelled.
RunReturnIgnoringCtx(s, failed) ==
    /\ panic = "none"
    /\ UNCHANGED pkgVars
    /\ pcRun[s] = "running"
    /\ pcRun' = [pcRun EXCEPT ![s] = IF failed THEN "emitErr" ELSE "done"]
    /\ UNCHANGED << config, state, stateSynced, chanVars, errVars, doneClosed, cancel, ctxDone,
                    parentCancelled, pcStart, startRet, pcCloser, stopVars, emitVars, errEmits,
                    received, panic >>

\* run(ctx) returns, with an error or without; err != nil && ctx.Err() == nil is evaluated.
RunReturn(s, failed) ==
    /\ panic = "none"
    /\ UNCHANGED pkgVars
    /\ pcRun[s] = "running"
    /\ pcRun' = [pcRun EXCEPT ![s] = IF failed /\ ~ctxDone[s] THEN "emitErr" ELSE "done"]
    /\ UNCHANGED << config, state, stateSynced, chanVars, errVars, doneClosed, cancel, ctxDone,
                    parentCancelled, pcStart, startRet, pcCloser, stopVars, emitVars, errEmits,
                    received, panic >>

\* s.EmitError(err)
RunEmitError(s) ==
    /\ panic = "none"
    /\ UNCHANGED pkgVars
    /\ pcRun[s] = "emitErr"
    /\ EmitErrorEffect(RunError)
    /\ pcRun' = [pcRun EXCEPT ![s] = "done"]
    /\ UNCHANGED << config, state, stateSynced, chanVars, doneClosed, cancel, ctxDone,
                    parentCancelled, pcStart, startRet, pcCloser, stopVars, emitVars, errEmits, received >>

\* -------------------------------------------------------------- Stop (248-258)

\* s.State() == StateClosed: return nil when it is.
StopLoadClosed(p) ==
    /\ panic = "none"
    /\ UNCHANGED pkgVars
    /\ pcStop[p] = "idle"
    /\ stopSynced' = [stopSynced EXCEPT ![p] = stateSynced]
    /\ pcStop' = [pcStop EXCEPT ![p] = IF state = "Closed" THEN "idle" ELSE "loadIdle"]
    /\ stopRet' = [stopRet EXCEPT ![p] = IF state = "Closed" THEN NilError ELSE "none"]
    /\ UNCHANGED << config, state, stateSynced, chanVars, errVars, doneClosed, cancel, ctxDone,
                    parentCancelled, startVars, stopPassed, emitVars, errEmits, received, panic >>

\* s.State() == StateIdle: return nil when it is.
StopLoadIdle(p) ==
    /\ panic = "none"
    /\ UNCHANGED pkgVars
    /\ pcStop[p] = "loadIdle"
    /\ stopSynced' = [stopSynced EXCEPT ![p] = stopSynced[p] \/ stateSynced]
    /\ pcStop' = [pcStop EXCEPT ![p] = IF state = "Idle" THEN "idle" ELSE "setClosing"]
    /\ stopRet' = [stopRet EXCEPT ![p] = IF state = "Idle" THEN NilError ELSE "none"]
    /\ stopPassed' = (stopPassed \/ state # "Idle")
    /\ UNCHANGED << config, state, stateSynced, chanVars, errVars, doneClosed, cancel, ctxDone,
                    parentCancelled, startVars, emitVars, errEmits, received, panic >>

\* s.setState(StateClosing)
StopSetClosing(p) ==
    /\ panic = "none"
    /\ UNCHANGED pkgVars
    /\ pcStop[p] = "setClosing"
    /\ state' = "Closing"
    /\ stateSynced' = stopSynced[p]
    /\ pcStop' = [pcStop EXCEPT ![p] = "cancel"]
    /\ UNCHANGED stopRet
    /\ UNCHANGED << config, chanVars, errVars, doneClosed, cancel, ctxDone, parentCancelled,
                    startVars, stopSynced, stopPassed, emitVars, errEmits, received, panic >>

\* if s.cancel != nil { s.cancel() }; return nil
StopCancel(p) ==
    /\ panic = "none"
    /\ UNCHANGED pkgVars
    /\ pcStop[p] = "cancel"
    /\ \E c \in CancelReads(p) :
          ctxDone' = IF c = NilCancel THEN ctxDone ELSE [ctxDone EXCEPT ![c] = TRUE]
    /\ pcStop' = [pcStop EXCEPT ![p] = "idle"]
    /\ stopRet' = [stopRet EXCEPT ![p] = NilError]
    /\ UNCHANGED << config, state, stateSynced, chanVars, errVars, doneClosed, cancel,
                    parentCancelled, startVars, stopSynced, stopPassed, emitVars, errEmits,
                    received, panic >>

\* -------------------------------------------------------------- Emit (195-202)

\* Emit(data) is entered: the channel operand s.DataChannel() is evaluated.
EmitCall(e) ==
    /\ panic = "none"
    /\ UNCHANGED pkgVars
    /\ pcEmit[e] = "idle"
    /\ emitCount < MaxEmits
    /\ DataChannelEffect
    /\ emitCh' = [emitCh EXCEPT ![e] = DataChannelValue]
    /\ emitVal' = [emitVal EXCEPT ![e] = emitCount + 1]
    /\ emitCount' = emitCount + 1
    /\ pcEmit' = [pcEmit EXCEPT ![e] = "send"]
    /\ UNCHANGED << config, state, stateSynced, errVars, doneClosed, cancel, ctxDone,
                    parentCancelled, startVars, stopVars, emitRet, errEmits, received, panic >>

\* The select: send on the channel obtained, or default; return true or false.
EmitSend(e) ==
    /\ panic = "none"
    /\ UNCHANGED pkgVars
    /\ pcEmit[e] = "send"
    /\ LET c == emitCh[e]
           r == TrySend(chBuf[c], chCap[c], chClosed[c])
       IN /\ chBuf' = [chBuf EXCEPT ![c] = BufAfterSend(chBuf[c], chCap[c], chClosed[c], emitVal[e])]
          /\ panic' = IF r = "panic" THEN SendOnClosed ELSE panic
          /\ emitRet' = [emitRet EXCEPT ![e] = IF r = "sent" THEN "true" ELSE IF r = "default" THEN "false" ELSE "none"]
    /\ pcEmit' = [pcEmit EXCEPT ![e] = "idle"]
    /\ UNCHANGED << config, state, stateSynced, dataCh, numChans, chCap, chClosed, errVars,
                    doneClosed, cancel, ctxDone, parentCancelled, startVars, stopVars,
                    emitCh, emitVal, emitCount, errEmits, received >>

\* ------------------------------------------------ other callers and consumers

\* A caller of DataChannel() (a Subscribe implementation handing the channel out).
DataChannel ==
    /\ panic = "none"
    /\ UNCHANGED pkgVars
    /\ dataCh = NilChan
    /\ DataChannelEffect
    /\ UNCHANGED << config, state, stateSynced, errVars, doneClosed, cancel, ctxDone,
                    parentCancelled, startVars, stopVars, emitVars, errEmits, received, panic >>

\* EmitError(err) called from outside the run goroutine, at most limit times;
\* the k-th call sends error k.
EmitErrorUpTo(limit) ==
    /\ panic = "none"
    /\ UNCHANGED pkgVars
    /\ errEmits < limit
    /\ EmitErrorEffect(errEmits + 1)
    /\ errEmits' = errEmits + 1
    /\ UNCHANGED << config, state, stateSynced, chanVars, doneClosed, cancel, ctxDone,
                    parentCancelled, startVars, stopVars, emitVars, received >>

\* EmitError(err) from a caller, in Spec.
EmitError == EmitErrorUpTo(MaxErrEmits)

\* EmitError(err) from a caller, in ErrSpec.
EmitErrorBurst == EmitErrorUpTo(MaxErrBurst)

\* A consumer receives the oldest item of data channel c (open or closed).
RecvData(c) ==
    /\ panic = "none"
    /\ UNCHANGED pkgVars
    /\ c <= numChans
    /\ chBuf[c] # << >>
    /\ chBuf' = [chBuf EXCEPT ![c] = Tail(chBuf[c])]
    /\ received' = TRUE
    /\ UNCHANGED << config, state, stateSynced, dataCh, numChans, chCap, chClosed, errVars,
                    doneClosed, cancel, ctxDone, parentCancelled, startVars, stopVars,
                    emitVars, errEmits, panic >>

\* A consumer receives the oldest error of s.errorCh.
RecvErr ==
    /\ panic = "none"
    /\ UNCHANGED pkgVars
    /\ errBuf # << >>
    /\ errBuf' = Tail(errBuf)
    /\ UNCHANGED << config, state, stateSynced, chanVars, errClosed, doneClosed, cancel,
                    ctxDone, parentCancelled, startVars, stopVars, emitVars, errEmits,
                    received, panic >>

\* ------------------------------------------------- Config.Validate (112-126)

\* Config.Validate(): nil, or the field of the validation error it returns.
ConfigValidate(c) ==
    IF c.BufferSize < 0 THEN "buffer_size"
    ELSE IF c.MaxReconnectAttempts < 0 THEN "max_reconnect_attempts"
    ELSE IF c.ReconnectBaseDelay < 0 THEN "reconnect_base_delay"
    ELSE IF c.ReconnectMaxDelay < c.ReconnectBaseDelay THEN "reconnect_max_delay"
    ELSE NilError

\* A caller validates a configuration.
ValidateCall ==
    /\ panic = "none"
    /\ \E cfg \in Configs :
          call' = [op |-> "Config.Validate", cfg |-> cfg, err |-> ConfigValidate(cfg)]
    /\ UNCHANGED << registry, providerRegistry, engineVars, streamVars, panic >>

\* ------------------------------------------------------- package exchange

ProviderNames == {"binance", "okx", ""}
\* The names providers register under: a valid Provider and one that is not.
RegisteredNames == {"binance", "okx"}
Factories == {"f1", "f2"}

\* Provider.IsValid()
ProviderIsValid(p) == p \in {"binance", "bybit"}

\* The stream configurations passed in options: the default, and the default
\* with one setting made negative, zero or inverted.
StreamConfigs ==
    {DefaultConfig,
     [DefaultConfig EXCEPT !.BufferSize = -1],
     [DefaultConfig EXCEPT !.MaxReconnectAttempts = -1],
     [DefaultConfig EXCEPT !.ReconnectBaseDelay = -1],
     [DefaultConfig EXCEPT !.ReconnectMaxDelay = 0],
     [DefaultConfig EXCEPT !.PingInterval = 0],
     [DefaultConfig EXCEPT !.PongTimeout = 0],
     [DefaultConfig EXCEPT !.Reconnect = FALSE, !.PingInterval = 0]}

\* The Options left when the opts of New have been applied to DefaultOptions().
OptionsSet == [Timeout : FieldRange, RetryCount : FieldRange, StreamConfig : StreamConfigs]

\* The ClientConfig values passed to NewClient.
ClientConfigs == [Provider : ProviderNames, Timeout : FieldRange, StreamConfig : StreamConfigs]

\* What a factory returns: a client, or an error.
FactoryResults ==
    {[client |-> "client", err |-> NilError], [client |-> "nil", err |-> "factory error"]}

\* An Options.Validate that leaves the stream configuration unexamined.
OptionsValidateNoStream(o) ==
    IF o.Timeout <= 0 THEN "timeout"
    ELSE IF o.RetryCount < 0 THEN "retry_count"
    ELSE NilError

\* Options.Validate()
OptionsValidate(o) ==
    IF o.Timeout <= 0 THEN "timeout"
    ELSE IF o.RetryCount < 0 THEN "retry_count"
    ELSE IF ConfigValidate(o.StreamConfig) # NilError THEN "stream config"
    ELSE NilError

\* IsProviderRegistered(name)
IsProviderRegistered(name) == name \in DOMAIN providerRegistry

\* stream.StreamConfig.Validate(): the rules of the configuration surface.
StreamConfigValidate(c) ==
    IF /\ c.BufferSize >= 0
       /\ c.MaxReconnectAttempts >= 0
       /\ c.ReconnectBaseDelay >= 0
       /\ c.ReconnectMaxDelay >= c.ReconnectBaseDelay
       /\ (c.Reconnect => (c.PingInterval > 0 /\ c.PongTimeout > 0))
    THEN NilError
    ELSE "stream config"

\* ClientConfig.Validate()
ClientConfigValidate(c) ==
    IF c.Provider = "" THEN "provider is required"
    ELSE IF ~IsProviderRegistered(c.Provider) THEN "not registered"
    ELSE IF c.Timeout < 0 THEN "timeout"
    ELSE StreamConfigValidate(c.StreamConfig)

\* New(p, opts...): the factory it calls ("none": no factory) and what it
\* returns, r being what the factory returns when called.
NewResult(p, options, r) ==
    IF ~ProviderIsValid(p)
    THEN [factory |-> "none", client |-> "nil", err |-> "provider"]
    ELSE IF p \notin DOMAIN registry
    THEN [factory |-> "none", client |-> "nil", err |-> "not registered"]
    ELSE IF OptionsValidate(options) # NilError
    THEN [factory |-> "none", client |-> "nil", err |-> "invalid options"]
    ELSE [factory |-> registry[p], client |-> r.client, err |-> r.err]

\* NewClient(cfg): likewise.
NewClientResult(cfg, r) ==
    IF ClientConfigValidate(cfg) # NilError
    THEN [factory |-> "none", client |-> "nil", err |-> "invalid config"]
    ELSE IF cfg.Provider \notin DOMAIN providerRegistry
    THEN [factory |-> "none", client |-> "nil", err |-> "not registered"]
    ELSE [factory |-> providerRegistry[cfg.Provider], client |-> r.client, err |-> r.err]

\* IsRegistered(p)
IsRegistered(p) == p \in DOMAIN registry

\* A registration that replaces the factory of a registered provider silently.
RegisterOverwrite(p, f) ==
    /\ panic = "none"
    /\ registry' = [q \in DOMAIN registry \cup {p} |-> IF q = p THEN f ELSE registry[q]]
    /\ call' = [op |-> "Register", provider |-> p, factory |-> f]
    /\ UNCHANGED << providerRegistry, engineVars, streamVars, panic >>

\* Register(p, f): panics if p is registered already.
Register(p, f) ==
    /\ panic = "none"
    /\ IF p \in DOMAIN registry
       THEN /\ panic' = "provider already registered"
            /\ UNCHANGED registry
       ELSE /\ registry' = [q \in DOMAIN registry \cup {p} |-> IF q = p THEN f ELSE registry[q]]
            /\ UNCHANGED panic
    /\ call' = [op |-> "Register", provider |-> p, factory |-> f]
    /\ UNCHANGED << providerRegistry, engineVars, streamVars >>

\* RegisterProvider(name, factory): panics if name is registered already.
RegisterProvider(name, factory) ==
    /\ panic = "none"
    /\ IF name \in DOMAIN providerRegistry
       THEN /\ panic' = "provider already registered"
            /\ UNCHANGED providerRegistry
       ELSE /\ providerRegistry' = [q \in DOMAIN providerRegistry \cup {name} |->
                                       IF q = name THEN factory ELSE providerRegistry[q]]
            /\ UNCHANGED panic
    /\ call' = [op |-> "RegisterProvider", provider |-> name, factory |-> factory]
    /\ UNCHANGED << registry, engineVars, streamVars >>

\* New(p, opts...)
New(p, options, r) ==
    /\ panic = "none"
    /\ call' = [op |-> "New", provider |-> p, opts |-> options, res |-> NewResult(p, options, r)]
    /\ UNCHANGED << registry, providerRegistry, engineVars, streamVars, panic >>

\* NewClient(cfg)
NewClient(cfg, r) ==
    /\ panic = "none"
    /\ call' = [op |-> "NewClient", cfg |-> cfg, res |-> NewClientResult(cfg, r)]
    /\ UNCHANGED << registry, providerRegistry, engineVars, streamVars, panic >>

\* ------------------------------------- order-book consistency engine

Prices == 1..3            \* three price levels: an insertion can fall before, between or after
Qtys   == 0..1            \* quantity 0 (the level is removed) and a positive quantity
Sides  == {"bid", "ask"}

\* One (price, quantity) entry of a diff, for one side of the book.
DiffEntry == [side : Sides, price : Prices, qty : Qtys]

\* The entries of a diff: none, one or two, in the order they are applied.
DiffEntries == UNION {[1..n -> DiffEntry] : n \in 0..2}

\* An incremental diff: its update ID range and its entries.
Diffs ==
    {[firstUpdateID |-> f, finalUpdateID |-> l, entries |-> es] :
        f \in 1..MaxUpdateID, l \in 1..MaxUpdateID, es \in DiffEntries}

\* Whether price p sorts before price q on a side: bids descend, asks ascend.
SortsBefore(side, p, q) == IF side = "bid" THEN p > q ELSE p < q

\* The levels of one side with the level at a price removed.
RemoveLevel(levels, price) == SelectSeq(levels, LAMBDA l : l.price # price)

\* An insertion that appends the level, replacing none and sorting nothing.
InsertLevelAtEnd(side, levels, price, qty) == Append(levels, [price |-> price, qty |-> qty])

\* The levels of one side with the level at a price inserted or replaced, in order.
InsertLevel(side, levels, price, qty) ==
    SelectSeq(levels, LAMBDA l : SortsBefore(side, l.price, price))
    \o << [price |-> price, qty |-> qty] >>
    \o SelectSeq(levels, LAMBDA l : SortsBefore(side, price, l.price))

\* One entry applied to one side: quantity 0 removes the level, any other
\* quantity inserts or replaces it.
ApplyEntry(side, levels, e) ==
    IF e.qty = 0 THEN RemoveLevel(levels, e.price)
    ELSE InsertLevel(side, levels, e.price, e.qty)

\* The entries of a diff applied in order to the bids and asks of a replica.
RECURSIVE ApplyEntries(_, _)
ApplyEntries(r, es) ==
    IF es = << >> THEN r
    ELSE LET e == Head(es)
         IN ApplyEntries(
                IF e.side = "bid"
                THEN [r EXCEPT !.bids = ApplyEntry("bid", r.bids, e)]
                ELSE [r EXCEPT !.asks = ApplyEntry("ask", r.asks, e)],
                Tail(es))

\* A gap test that lets a diff starting beyond the watermark through.
IsGapNever(r, d) == FALSE

\* A diff starts beyond the update that follows the watermark.
IsGap(r, d) == d.firstUpdateID > r.lastUpdateID + 1

\* A stale test that lets a diff ending at the watermark through.
IsStaleBelow(r, d) == d.finalUpdateID < r.lastUpdateID

\* A diff lies entirely at or below the watermark.
IsStale(r, d) == d.finalUpdateID <= r.lastUpdateID

\* What the engine does with a diff: "discarded" (no valid replica), "stale"
\* (entirely at or below the watermark), "gap", or "applied".
DiffOutcome(r, d) ==
    IF ~r.valid THEN "discarded"
    ELSE IF IsStale(r, d) THEN "stale"
    ELSE IF IsGap(r, d) THEN "gap"
    ELSE "applied"

\* The replica after the engine has handled a diff.
ApplyDiff(r, d) ==
    CASE DiffOutcome(r, d) = "applied" ->
            [ApplyEntries(r, d.entries) EXCEPT !.lastUpdateID = d.finalUpdateID,
                                               !.sequence = r.sequence + 1]
      [] DiffOutcome(r, d) = "gap" -> [r EXCEPT !.valid = FALSE]
      [] OTHER -> r

\* The sorted books a snapshot can carry: for each side, the levels of a set of
\* prices in the side's order, every quantity positive.
RECURSIVE LevelsOf(_, _)
LevelsOf(side, prices) ==
    IF prices = {} THEN << >>
    ELSE LET first == CHOOSE p \in prices : \A q \in prices \ {p} : SortsBefore(side, p, q)
         IN << [price |-> first, qty |-> 1] >> \o LevelsOf(side, prices \ {first})

\* A full snapshot at watermark u0 arrives and (re)initialises the replica; the
\* subscription enters Active.  A snapshot taken after a gap is newer than the
\* watermark, the updates that were missed being part of it.
Snapshot(u0, bidPrices, askPrices) ==
    /\ panic = "none"
    /\ ~replica.valid
    /\ replica.sequence > 0 => u0 > replica.lastUpdateID
    /\ replica' = [bids |-> LevelsOf("bid", bidPrices), asks |-> LevelsOf("ask", askPrices),
                   sequence |-> replica.sequence + 1, lastUpdateID |-> u0, valid |-> TRUE]
    /\ subState' = "Active"
    /\ call' = [op |-> "Snapshot"]
    /\ UNCHANGED << registry, providerRegistry, backoff, streamVars, panic >>

\* A diff arrives: the engine applies it, drops it, or reports a gap, which
\* forces the subscription out of Active into Reconnecting.
Diff(d) ==
    /\ panic = "none"
    /\ d.firstUpdateID <= d.finalUpdateID
    /\ replica' = ApplyDiff(replica, d)
    /\ subState' = IF DiffOutcome(replica, d) = "gap" THEN "Reconnecting" ELSE subState
    /\ call' = [op |-> "Diff", firstUpdateID |-> d.firstUpdateID,
                 finalUpdateID |-> d.finalUpdateID, outcome |-> DiffOutcome(replica, d)]
    /\ UNCHANGED << registry, providerRegistry, backoff, streamVars, panic >>

\* ------------------------------------------------------ backoff controller

\* The jitter factors, in tenths: 0.5 to 1.0.
Jitters == 5..10

RECURSIVE Pow2(_)
Pow2(n) == IF n = 0 THEN 1 ELSE 2 * Pow2(n - 1)

\* min(maxDelay, baseDelay * 2^attempt): the delay before jitter.
BackoffRaw(base, max, attempt) ==
    IF base * Pow2(attempt) < max THEN base * Pow2(attempt) ELSE max

\* delay(attempt) = min(maxDelay, baseDelay * 2^attempt) * jitterFactor, in tenths
\* of a second, j being the jitter factor in tenths.
BackoffDelay(base, max, attempt, j) == BackoffRaw(base, max, attempt) * j

\* maxAttempts > 0 and attempt >= maxAttempts: exhaustion is signalled, not a delay.
Exhausted(maxAttempts, attempt) == maxAttempts > 0 /\ attempt >= maxAttempts

\* A Connecting or Reconnecting attempt fails: the controller signals exhaustion,
\* or computes the delay of the attempt with jitter j and counts the attempt.
AttemptFailed(j) ==
    /\ panic = "none"
    /\ ~backoff.exhausted
    /\ backoff.attempt < MaxFailures
    /\ backoff' =
          IF Exhausted(config.MaxReconnectAttempts, backoff.attempt)
          THEN [backoff EXCEPT !.exhausted = TRUE]
          ELSE [attempt |-> backoff.attempt + 1,
                raw |-> BackoffRaw(config.ReconnectBaseDelay, config.ReconnectMaxDelay, backoff.attempt),
                delay |-> BackoffDelay(config.ReconnectBaseDelay, config.ReconnectMaxDelay,
                                       backoff.attempt, j),
                prevRaw |-> backoff.raw,
                prev |-> backoff.delay,
                exhausted |-> FALSE]
    /\ call' = [op |-> "AttemptFailed"]
    /\ UNCHANGED << registry, providerRegistry, replica, subState, streamVars, panic >>

\* The subscription enters Active: the attempt count resets to 0.
EnterActive ==
    /\ panic = "none"
    /\ ~backoff.exhausted
    /\ backoff' = NoBackoff
    /\ call' = [op |-> "EnterActive"]
    /\ UNCHANGED << registry, providerRegistry, replica, subState, streamVars, panic >>

\* ------------------------------------------------------------ package order

\* Status: an int; the seven values the const block defines.
StatusNew             == 0
StatusPartiallyFilled == 1
StatusFilled          == 2
StatusCancelled       == 3
StatusRejected        == 4
StatusExpired         == 5
StatusPendingCancel   == 6

\* Status values: the seven defined ones and one undefined value on each side.
Statuses == (StatusNew - 1)..(StatusPendingCancel + 1)

\* The fields of Order that its status predicates and quantities read.
Orders == [Status : Statuses, Quantity : 0..MaxOrderQty, ExecutedQty : 0..MaxOrderQty]

\* An IsActive that leaves out PendingCancel.
IsActiveNotPending(s) == s = StatusNew \/ s = StatusPartiallyFilled

\* Status.IsActive
IsActive(s) == s = StatusNew \/ s = StatusPartiallyFilled \/ s = StatusPendingCancel

\* Status.IsTerminal
IsTerminal(s) ==
    s = StatusFilled \/ s = StatusCancelled \/ s = StatusRejected \/ s = StatusExpired

\* Order.IsOpen
IsOpen(o) == IsActive(o.Status)

\* Order.IsFilled
IsFilled(o) == o.Status = StatusFilled

\* Order.IsCancelled
IsCancelled(o) == o.Status = StatusCancelled

\* The status predicates are called on order o.
OrderStatus(o) ==
    /\ panic = "none"
    /\ call' = [op |-> "Order", order |-> o,
                active |-> IsActive(o.Status), terminal |-> IsTerminal(o.Status),
                open |-> IsOpen(o), filled |-> IsFilled(o), cancelled |-> IsCancelled(o)]
    /\ UNCHANGED << registry, providerRegistry, engineVars, streamVars, panic >>

\* ------------------------------------------------------------ specification

Next ==
    \/ \E s \in Starters : StartCAS(s)
    \/ \E s \in Starters : StartSpawn(s)
    \/ ParentCancel
    \/ \E s \in Starters : CloserCloseData(s)
    \/ \E s \in Starters : CloserCloseErr(s)
    \/ \E s \in Starters : CloserCloseDone(s)
    \/ \E s \in Starters : CloserSetClosed(s)
    \/ \E s \in Starters : RunSetActive(s)
    \/ \E s \in Starters, failed \in BOOLEAN : RunReturn(s, failed)
    \/ \E s \in Starters : RunEmitError(s)
    \/ \E p \in Stoppers : StopLoadClosed(p)
    \/ \E p \in Stoppers : StopLoadIdle(p)
    \/ \E p \in Stoppers : StopSetClosing(p)
    \/ \E p \in Stoppers : StopCancel(p)
    \/ \E e \in Emitters : EmitCall(e)
    \/ \E e \in Emitters : EmitSend(e)
    \/ DataChannel
    \/ EmitError
    \/ \E c \in ChanIds : RecvData(c)
    \/ RecvErr

Spec == Init /\ [][Next]_vars


\* The error channel under a burst of errors: the life cycle of the stream, the
\* EmitError calls and the consumer of Errors().
ErrNext ==
    \/ \E s \in Starters : StartCAS(s)
    \/ \E s \in Starters : StartSpawn(s)
    \/ ParentCancel
    \/ \E s \in Starters : CloserCloseData(s)
    \/ \E s \in Starters : CloserCloseErr(s)
    \/ \E s \in Starters : CloserCloseDone(s)
    \/ \E s \in Starters : CloserSetClosed(s)
    \/ \E s \in Starters : RunSetActive(s)
    \/ \E s \in Starters, failed \in BOOLEAN : RunReturn(s, failed)
    \/ \E s \in Starters : RunEmitError(s)
    \/ EmitErrorBurst
    \/ RecvErr

ErrSpec == Init /\ [][ErrNext]_vars

\* Config.Validate applied to the configurations of Configs.
ValidateNext == ValidateCall

ValidateSpec == Init /\ [][ValidateNext]_vars

\* Streams constructed with any configuration, started and used.
CtorNext ==
    \/ \E s \in Starters : StartCAS(s)
    \/ \E s \in Starters : StartSpawn(s)
    \/ \E s \in Starters : RunSetActive(s)
    \/ DataChannel

CtorSpec == CtorInit /\ [][CtorNext]_vars

\* Package exchange: registrations and client constructions.
RegistryNext ==
    \/ \E p \in RegisteredNames, f \in Factories : Register(p, f)
    \/ \E name \in RegisteredNames, factory \in Factories : RegisterProvider(name, factory)
    \/ \E p \in ProviderNames, options \in OptionsSet, r \in FactoryResults : New(p, options, r)
    \/ \E cfg \in ClientConfigs, r \in FactoryResults : NewClient(cfg, r)

\* The package as loaded: two empty registries (and a stream that takes no step).
RegistryInit == NewBaseStream(DefaultConfig)

RegistrySpec == RegistryInit /\ [][RegistryNext]_vars

\* The order-book consistency engine of one symbol: snapshots and diffs.
BookNext ==
    \/ \E u0 \in 0..MaxUpdateID, bidPrices \in SUBSET Prices, askPrices \in SUBSET Prices :
          Snapshot(u0, bidPrices, askPrices)
    \/ \E d \in Diffs : Diff(d)

BookSpec == RegistryInit /\ [][BookNext]_vars

\* Fairness of the Go scheduler: a goroutine (or a call in progress) that can
\* take its next step eventually takes it.  No fairness is assumed of the
\* callers (Start, Stop, Emit, the parent's cancel), of the consumers, or of the
\* run function returning.
FairSpec ==
    /\ Spec
    /\ \A s \in Starters :
          /\ WF_vars(StartSpawn(s))
          /\ WF_vars(CloserCloseData(s))
          /\ WF_vars(CloserCloseErr(s))
          /\ WF_vars(CloserCloseDone(s))
          /\ WF_vars(CloserSetClosed(s))
          /\ WF_vars(RunSetActive(s))
          /\ WF_vars(RunEmitError(s))
    /\ \A p \in Stoppers :
          /\ WF_vars(StopLoadIdle(p))
          /\ WF_vars(StopSetClosing(p))
          /\ WF_vars(StopCancel(p))
    /\ \A e \in Emitters : WF_vars(EmitSend(e))

\* A stream with reconnection enabled and MaxReconnectAttempts of 0..MaxAttempts.
ReconnectInit ==
    \E n \in 0..MaxAttempts : NewBaseStream([DefaultConfig EXCEPT !.MaxReconnectAttempts = n])

\* The life cycle of a stream whose run function can fail.
ReconnectNext ==
    \/ \E s \in Starters : StartCAS(s)
    \/ \E s \in Starters : StartSpawn(s)
    \/ ParentCancel
    \/ \E s \in Starters : CloserCloseData(s)
    \/ \E s \in Starters : CloserCloseErr(s)
    \/ \E s \in Starters : CloserCloseDone(s)
    \/ \E s \in Starters : CloserSetClosed(s)
    \/ \E s \in Starters : RunSetActive(s)
    \/ \E s \in Starters, failed \in BOOLEAN : RunReturn(s, failed)
    \/ \E s \in Starters : RunEmitError(s)
    \/ \E p \in Stoppers : StopLoadClosed(p)
    \/ \E p \in Stoppers : StopLoadIdle(p)
    \/ \E p \in Stoppers : StopSetClosing(p)
    \/ \E p \in Stoppers : StopCancel(p)
    \/ RecvErr

\* The same with the scheduler's fairness: a goroutine or a Stop call that can
\* take its next step eventually takes it.
ReconnectSpec ==
    /\ ReconnectInit
    /\ [][ReconnectNext]_vars
    /\ \A s \in Starters :
          /\ WF_vars(StartSpawn(s))
          /\ WF_vars(CloserCloseData(s))
          /\ WF_vars(CloserCloseErr(s))
          /\ WF_vars(CloserCloseDone(s))
          /\ WF_vars(CloserSetClosed(s))
          /\ WF_vars(RunSetActive(s))
          /\ WF_vars(RunEmitError(s))
    /\ \A p \in Stoppers :
          /\ WF_vars(StopLoadIdle(p))
          /\ WF_vars(StopSetClosing(p))
          /\ WF_vars(StopCancel(p))

\* The backoff controller of a stream with base and maximum delays of
\* 0..MaxDelay seconds, the maximum not below the base, and a maximum attempt
\* count of 0..MaxAttempts.
BackoffInit ==
    \E b \in 0..MaxDelay, m \in 0..MaxDelay, n \in 0..MaxAttempts :
        /\ b <= m
        /\ NewBaseStream([DefaultConfig EXCEPT !.ReconnectBaseDelay = b,
                                               !.ReconnectMaxDelay = m,
                                               !.MaxReconnectAttempts = n])

BackoffNext ==
    \/ \E j \in Jitters : AttemptFailed(j)
    \/ EnterActive

BackoffSpec == BackoffInit /\ [][BackoffNext]_vars

\* The status predicates of package order over all orders.
OrderNext == \E o \in Orders : OrderStatus(o)

OrderSpec == RegistryInit /\ [][OrderNext]_vars

\* ------------------------------------------------------------------ claims

\* The closer goroutine of some Start call has finished.
CloserFinished == \E s \in Starters : pcCloser[s] = "done"

\* C1: once the Done channel is closed, no step enqueues a value on any data
\* channel or on the error channel.
C1_NoEnqueueAfterDone ==
    [][doneClosed =>
          /\ \A c \in ChanIds : Len(chBuf'[c]) <= Len(chBuf[c])
          /\ Len(errBuf') <= Len(errBuf)]_vars

\* C2: no send is ever attempted on a closed data or error channel (the
\* send-on-closed-channel panic is unreachable).
C2_NoSendOnClosed == panic # SendOnClosed

\* C3: the data channel, the error channel and the Done channel are each closed
\* at most once: no close is ever applied to a channel that is already closed.
C3_ClosedAtMostOnce == panic # CloseOfClosed

\* C3 witness: a second Start was refused, Stop and the parent's cancel both
\* acted, and a data channel, the error channel and Done were all closed.
C3_Witness ==
    /\ \E s \in Starters : pcStart[s] = "retErr"
    /\ stopPassed
    /\ parentCancelled
    /\ \E c \in ChanIds : chClosed[c]
    /\ errClosed
    /\ doneClosed
    /\ CloserFinished

\* Stop has found the stream neither Idle nor Closed, or the context passed to
\* a successful Start is cancelled.
StopOrCancelRequested ==
    \/ stopPassed
    \/ parentCancelled /\ \E s \in Starters : pcStart[s] \in {"withCancel", "retNil"}

\* C4: after such a Stop or cancellation the stream eventually reaches Closed
\* and stays there (a crash of the process is not counted against the claim).
\* Checked under FairSpec: every goroutine keeps running; only the callers and
\* the run function, which blocks until its context is cancelled, may stay idle.
C4_EventuallyClosedForever ==
    StopOrCancelRequested ~> (panic # "none" \/ [](state = "Closed"))

\* C5: Closed is absorbing: no step takes the state from Closed to another value.
C5_ClosedAbsorbing == [][state = "Closed" => state' = "Closed"]_vars

\* C6: every data channel DataChannel() has handed out is closed once the stream
\* has shut down.  Only the closer goroutine closes data channels, so a channel
\* still open when it has finished stays open for ever.
C6_HandedOutChannelsClosed ==
    CloserFinished => \A c \in 1..numChans : chClosed[c]

\* C7: whenever the Done channel is closed, State() returns Closed.
C7_DoneImpliesClosed == doneClosed => state = "Closed"

\* C8: Emit never blocks, and an Emit whose channel already holds as many items
\* as its capacity returns false and leaves every pending item and their order
\* unchanged.
C8_FullChannelDropsNewest ==
    /\ [](\A e \in Emitters : (pcEmit[e] = "send" /\ panic = "none") => ENABLED EmitSend(e))
    /\ [][\A e \in Emitters :
            (/\ pcEmit[e] = "send"
             /\ pcEmit'[e] = "idle"
             /\ Len(chBuf[emitCh[e]]) >= chCap[emitCh[e]])
            => /\ chBuf' = chBuf
               /\ emitRet'[e] = "false"
               /\ panic' = "none"]_vars

\* C9: with buffer size 1, when a second tick is emitted with no receive since
\* the first, the drop is recorded, that is the Emit changes a field of the
\* stream other than the channel's contents (a drop count), and the channel
\* afterwards holds only the second tick.
C9_SecondTickKeptAndDropRecorded ==
    [][\A e \in Emitters :
         (/\ config.BufferSize = 1
          /\ ~received
          /\ emitVal[e] = 2
          /\ pcEmit[e] = "send"
          /\ pcEmit'[e] = "idle"
          /\ chBuf[emitCh[e]] = << 1 >>
          /\ ~chClosed[emitCh[e]])
         => /\ << config, state, dataCh, numChans, chCap, chClosed,
                  errBuf, errClosed, doneClosed, cancel >>'
               # << config, state, dataCh, numChans, chCap, chClosed,
                    errBuf, errClosed, doneClosed, cancel >>
            /\ chBuf'[emitCh[e]] = << 2 >>]_vars

\* C10: once the shutdown of the stream has completed (its closer goroutine has
\* finished), an Emit that returns returns false and enqueues nothing.
C10_EmitAfterCloseReturnsFalse ==
    [][\A e \in Emitters :
          (CloserFinished /\ pcEmit[e] = "send" /\ pcEmit'[e] = "idle" /\ panic' = "none")
          => (emitRet'[e] = "false" /\ chBuf' = chBuf)]_vars

\* A step that is an EmitError call: by a caller, or by the run goroutine.
ErrSendStep ==
    \/ errEmits' = errEmits + 1
    \/ \E s \in Starters : pcRun[s] = "emitErr" /\ pcRun'[s] = "done"

\* C11: EmitError never blocks, the error channel never holds more than 10
\* errors, and an EmitError that finds it holding 10 returns with the pending
\* errors and their order unchanged.
C11_ErrorChannelDropsNewest ==
    /\ [](Len(errBuf) <= ErrChanCap)
    /\ []((panic = "none" /\ errEmits < MaxErrBurst) => ENABLED EmitErrorBurst)
    /\ [][(ErrSendStep /\ Len(errBuf) >= ErrChanCap)
            => (errBuf' = errBuf /\ panic' = "none")]_vars

\* C12: a Start whose compare-and-swap fails returns AlreadySubscribed and
\* leaves the state, the cancel function and the channels unchanged and spawns
\* no goroutine.
C12_RestartFailsAlreadySubscribed ==
    [][\A s \in Starters :
          (pcStart[s] = "idle" /\ pcStart'[s] = "retErr")
          => /\ startRet'[s] = "ErrAlreadySubscribed"
             /\ UNCHANGED << state, cancel, chanVars, errVars, doneClosed, pcCloser, pcRun >>]_vars

\* C13: a Stop that finds the state Idle or Closed returns NotSubscribed and
\* leaves the state unchanged.
C13_StopIdleOrClosedFailsNotSubscribed ==
    [][\A p \in Stoppers :
          ((StopLoadClosed(p) /\ state = "Closed") \/ (StopLoadIdle(p) /\ state = "Idle"))
          => (stopRet'[p] = "ErrNotSubscribed" /\ state' = state)]_vars

\* The order Idle < Connecting < Active/Reconnecting < Closing < Closed.
StateRank(st) ==
    CASE st = "Idle" -> 0
      [] st = "Connecting" -> 1
      [] st \in {"Active", "Reconnecting"} -> 2
      [] st = "Closing" -> 3
      [] st = "Closed" -> 4

\* C14: every change of the state moves to a state that is not earlier in the
\* order, except Reconnecting going back to Connecting.
C14_StateMonotonic ==
    [][\/ StateRank(state') >= StateRank(state)
       \/ (state = "Reconnecting" /\ state' = "Connecting")]_vars

\* C15: every change of the state into Closed is made from Closing.
C15_ClosedOnlyFromClosing ==
    [][(state' = "Closed" /\ state # "Closed") => state = "Closing"]_vars

\* C16: no step taken while the state is not Active adds an item to a data
\* channel.
C16_DataFlowsOnlyInActive ==
    [][state # "Active" => \A c \in ChanIds : Len(chBuf'[c]) <= Len(chBuf[c])]_vars

\* C17 as stated: every data channel has capacity BufferSize and never buffers
\* more than BufferSize items, for every BufferSize >= 0.
C17_CapacityIsBufferSize ==
    \A c \in 1..numChans :
        chCap[c] = config.BufferSize /\ Len(chBuf[c]) <= config.BufferSize

\* C17 amended: every data channel has capacity BufferSize when BufferSize >= 1
\* and capacity 100 when BufferSize is 0, and never buffers more items than its
\* capacity.
C17_CapacityIsBufferSizeOrDefault ==
    \A c \in 1..numChans :
        /\ chCap[c] = (IF config.BufferSize >= 1 THEN config.BufferSize ELSE DefaultBufSize)
        /\ Len(chBuf[c]) <= chCap[c]

\* C17 witness: with BufferSize 0 every Emit made was buffered, none received.
C17_Witness ==
    /\ config.BufferSize = 0
    /\ ~received
    /\ \E c \in 1..numChans : Len(chBuf[c]) = MaxEmits

\* C18: Config.Validate returns nil exactly when BufferSize >= 0,
\* MaxReconnectAttempts >= 0, ReconnectBaseDelay >= 0, ReconnectMaxDelay >=
\* ReconnectBaseDelay and, Reconnect being true, PingInterval > 0 and
\* PongTimeout > 0.
C18_ValidateNilExactlyWhenValid ==
    call.op = "Config.Validate" =>
        (call.err = NilError <=>
            /\ call.cfg.BufferSize >= 0
            /\ call.cfg.MaxReconnectAttempts >= 0
            /\ call.cfg.ReconnectBaseDelay >= 0
            /\ call.cfg.ReconnectMaxDelay >= call.cfg.ReconnectBaseDelay
            /\ (call.cfg.Reconnect => (call.cfg.PingInterval > 0 /\ call.cfg.PongTimeout > 0)))

\* C19: no stream leaves Idle with a configuration that fails Config.Validate.
C19_NoInvalidConfigLeavesIdle ==
    state # "Idle" => ConfigValidate(config) = NilError

\* C20: New and NewClient call the provider's factory only when the provider is
\* valid and registered and the options pass Validate, the stream configuration
\* included; otherwise they return a nil client and an error and call no
\* factory; and they never change the registry.
C20_FactoryOnlyWhenValid ==
    /\ [](call.op = "New" =>
            LET ok == /\ call.provider \in {"binance", "bybit"}
                      /\ call.provider \in DOMAIN registry
                      /\ call.opts.Timeout > 0
                      /\ call.opts.RetryCount >= 0
                      /\ ConfigValidate(call.opts.StreamConfig) = NilError
            IN /\ ok => call.res.factory = registry[call.provider]
               /\ ~ok => (call.res.factory = "none" /\ call.res.client = "nil"
                             /\ call.res.err # NilError))
    /\ [](call.op = "NewClient" =>
            LET ok == /\ call.cfg.Provider # ""
                      /\ call.cfg.Provider \in DOMAIN providerRegistry
                      /\ call.cfg.Timeout >= 0
                      /\ StreamConfigValidate(call.cfg.StreamConfig) = NilError
            IN /\ ok => call.res.factory = providerRegistry[call.cfg.Provider]
               /\ ~ok => (call.res.factory = "none" /\ call.res.client = "nil"
                             /\ call.res.err # NilError))
    /\ [][(call' # call /\ call'.op \in {"New", "NewClient"})
            => (registry' = registry /\ providerRegistry' = providerRegistry)]_vars

\* C20 witness: New for a valid, registered provider with valid timeout and
\* retry count and an invalid stream configuration called no factory.
C20_Witness ==
    /\ call.op = "New"
    /\ call.provider \in DOMAIN registry
    /\ ProviderIsValid(call.provider)
    /\ call.opts.Timeout > 0
    /\ call.opts.RetryCount >= 0
    /\ ConfigValidate(call.opts.StreamConfig) # NilError
    /\ call.res = [factory |-> "none", client |-> "nil", err |-> "invalid options"]

\* The levels of one side are strictly ordered by price, bids descending and
\* asks ascending (so no price occurs twice), and none has quantity zero.
SideWellFormed(side, levels) ==
    /\ \A i \in 1..Len(levels) : levels[i].qty > 0
    /\ \A i \in 1..Len(levels) : \A j \in 1..Len(levels) :
          i < j => IF side = "bid" THEN levels[i].price > levels[j].price
                   ELSE levels[i].price < levels[j].price

\* C21: after every application of a diff the bids are strictly descending by
\* price, the asks strictly ascending, no price level is duplicated and no level
\* with quantity zero is stored.
C21_BookSorted ==
    SideWellFormed("bid", replica.bids) /\ SideWellFormed("ask", replica.asks)

\* C21 witness: a diff was applied that left three bid levels and two ask levels.
C21_Witness ==
    /\ call.op = "Diff"
    /\ call.outcome = "applied"
    /\ Len(replica.bids) = 3
    /\ Len(replica.asks) = 2

\* C22: a diff whose finalUpdateID is at or below the watermark leaves the bids,
\* asks, sequence and lastUpdateID of the replica unchanged; and a diff that was
\* applied is at or below the watermark afterwards, so that replaying it changes
\* nothing.
C22_StaleDiffIsNoOp ==
    /\ [][(call'.op = "Diff" /\ call'.finalUpdateID <= replica.lastUpdateID)
            => (replica' = replica /\ subState' = subState)]_vars
    /\ []((call.op = "Diff" /\ call.outcome = "applied")
            => call.finalUpdateID <= replica.lastUpdateID)

\* C22 witness: a diff ending at the watermark of a valid replica with levels
\* on both sides was dropped as stale.
C22_Witness ==
    /\ call.op = "Diff"
    /\ call.outcome = "stale"
    /\ call.finalUpdateID = replica.lastUpdateID
    /\ replica.valid
    /\ replica.bids # << >>
    /\ replica.asks # << >>

\* C23: a diff that starts beyond the update following the watermark of a valid
\* replica is not applied, invalidates the replica and takes the subscription
\* from Active to Reconnecting; while the subscription is Reconnecting no diff
\* raises a transition or changes the replica.
C23_GapInvalidatesOnce ==
    /\ [](replica.valid <=> subState = "Active")
    /\ [][(call'.op = "Diff" /\ replica.valid /\ call'.firstUpdateID > replica.lastUpdateID + 1)
            => /\ replica' = [replica EXCEPT !.valid = FALSE]
               /\ subState = "Active"
               /\ subState' = "Reconnecting"]_vars
    /\ [][(call'.op = "Diff" /\ subState = "Reconnecting")
            => (replica' = replica /\ subState' = "Reconnecting" /\ call'.outcome = "discarded")]_vars

\* C23 witness: after a gap a second diff beyond the watermark arrived and was
\* discarded, the subscription still Reconnecting.
C23_Witness ==
    /\ call.op = "Diff"
    /\ call.outcome = "discarded"
    /\ call.firstUpdateID > replica.lastUpdateID + 1
    /\ subState = "Reconnecting"
    /\ ~replica.valid
    /\ replica.sequence > 0

\* C24: with reconnection enabled and MaxReconnectAttempts > 0, a failed
\* attempt (run returned an error, the context not cancelled) leads the
\* subscription to Reconnecting, or to Closed for exhaustion, unless a Stop, the
\* parent's cancel or a panic comes first.
C24_FailedAttemptLeadsToReconnectingOrClosed ==
    \A s \in Starters :
        (config.Reconnect /\ config.MaxReconnectAttempts > 0 /\ pcRun[s] = "emitErr")
            ~> \/ state = "Reconnecting"
               \/ state = "Closed"
               \/ stopPassed
               \/ parentCancelled
               \/ panic # "none"

\* C26: Register on a provider that is registered already panics and leaves
\* the registry as it was, the first factory still associated; Register on any
\* other provider adds exactly that provider with its factory; RegisterProvider
\* does the same on its own registry; no other operation changes either
\* registry, so IsRegistered and IsProviderRegistered are true exactly for the
\* providers registered successfully.
C26_RegisterDuplicatePanics ==
    [][ /\ call'.op = "Register" =>
              IF IsRegistered(call'.provider)
              THEN /\ panic' = "provider already registered"
                   /\ registry' = registry
              ELSE /\ panic' = panic
                   /\ DOMAIN registry' = DOMAIN registry \cup {call'.provider}
                   /\ registry'[call'.provider] = call'.factory
                   /\ \A q \in DOMAIN registry : registry'[q] = registry[q]
        /\ call'.op = "RegisterProvider" =>
              IF IsProviderRegistered(call'.provider)
              THEN /\ panic' = "provider already registered"
                   /\ providerRegistry' = providerRegistry
              ELSE /\ panic' = panic
                   /\ DOMAIN providerRegistry' = DOMAIN providerRegistry \cup {call'.provider}
                   /\ providerRegistry'[call'.provider] = call'.factory
                   /\ \A q \in DOMAIN providerRegistry :
                          providerRegistry'[q] = providerRegistry[q]
        /\ call'.op # "Register" => registry' = registry
        /\ call'.op # "RegisterProvider" => providerRegistry' = providerRegistry
      ]_vars

\* C26 witness: a second Register of a registered provider, with another
\* factory, has panicked and the first factory is still the registered one.
C26_Witness ==
    /\ call.op = "Register"
    /\ panic = "provider already registered"
    /\ IsRegistered(call.provider)
    /\ registry[call.provider] # call.factory

\* C27: a stream is started at most once: at most one Start passes the swap
\* from Idle and returns nil, no step sets the state back to Idle, and a Start
\* on a Closed stream fails and changes nothing.
C27_StartedAtMostOnce ==
    /\ [](Cardinality({s \in Starters : pcStart[s] \in {"withCancel", "retNil"}}) <= 1)
    /\ [](Cardinality({s \in Starters : startRet[s] = NilError}) <= 1)
    /\ [][state # "Idle" => state' # "Idle"]_vars
    /\ [][\A s \in Starters :
             (state = "Closed" /\ pcStart[s] = "idle" /\ pcStart'[s] # "idle")
             => /\ pcStart'[s] = "retErr"
                /\ startRet'[s] # NilError
                /\ UNCHANGED << state, cancel, pcCloser, pcRun >>]_vars

\* C27 witness: one Start returned nil, the stream was closed, and the other
\* Start, called on the Closed stream, returned an error.
C27_Witness ==
    /\ panic = "none"
    /\ state = "Closed"
    /\ \E s, t \in Starters :
          /\ startRet[s] = NilError
          /\ pcStart[t] = "retErr"
          /\ startRet[t] = ErrCancelled

\* C28: the closer closes the data channel, if there is one, then the error
\* channel, then the Done channel: its first step leaves every data channel made
\* so far closed, the error channel is closed only by a closer that is past that
\* step, Done only after the error channel, and no channel is reopened; so
\* whenever Done is closed the error channel is closed too.
C28_ShutdownOrder ==
    /\ [][\A s \in Starters :
             (pcCloser[s] = "wait" /\ pcCloser'[s] # "wait")
             => /\ pcCloser'[s] = "closeErr"
                /\ dataCh' = NilChan
                /\ \A c \in 1..numChans : chClosed'[c]
                /\ ~errClosed' /\ ~doneClosed']_vars
    /\ [][(errClosed' /\ ~errClosed)
             => /\ ~doneClosed'
                /\ \E s \in Starters : pcCloser[s] = "closeErr" /\ pcCloser'[s] = "closeDone"]_vars
    /\ [][(doneClosed' /\ ~doneClosed)
             => /\ errClosed
                /\ \E s \in Starters : pcCloser[s] = "closeDone" /\ pcCloser'[s] = "setClosed"]_vars
    /\ [][/\ \A c \in 1..numChans : chClosed[c] => chClosed'[c]
          /\ errClosed => errClosed'
          /\ doneClosed => doneClosed']_vars
    /\ [](doneClosed => errClosed)

\* C28 witness: Done is closed, and so are the error channel and the data
\* channel the closer found.
C28_Witness ==
    /\ panic = "none"
    /\ doneClosed
    /\ errClosed
    /\ numChans = 1
    /\ chClosed[1]
    /\ dataCh = NilChan

\* C29: the return of run does not end the stream. The step in which run
\* returns changes neither the state nor any channel, and leads to the offer of
\* the error only if the context is not cancelled; the offer itself changes
\* neither the state nor the data and Done channels, is made once, and while the
\* context is not cancelled it puts the error in the error channel if there is
\* room and cannot panic; channels are closed, and the state leaves Active, only
\* after Stop or a cancellation of the context.
C29_RunReturnDoesNotTerminate ==
    /\ [][\A s \in Starters :
             (pcRun[s] = "running" /\ pcRun'[s] # "running")
             => /\ UNCHANGED << state, chanVars, errVars, doneClosed, panic >>
                /\ pcRun'[s] \in {"emitErr", "done"}
                /\ ctxDone[s] => pcRun'[s] = "done"]_vars
    /\ [][\A s \in Starters :
             (pcRun[s] = "emitErr" /\ pcRun'[s] # "emitErr")
             => /\ UNCHANGED << state, chanVars, errClosed, doneClosed >>
                /\ pcRun'[s] = "done"
                /\ errBuf' \in {errBuf, Append(errBuf, RunError)}
                /\ ~ctxDone[s] =>
                      /\ panic' = "none"
                      /\ Len(errBuf) < ErrChanCap => errBuf' = Append(errBuf, RunError)]_vars
    /\ [][\A s \in Starters : pcRun[s] = "done" => pcRun'[s] = "done"]_vars
    /\ [][(\/ errClosed' # errClosed
           \/ doneClosed' # doneClosed
           \/ chClosed' # chClosed
           \/ (state = "Active" /\ state' # "Active"))
          => (stopPassed' \/ \E s \in Starters : ctxDone[s])]_vars

\* C29 witness: run has returned an error on a stream whose context is not
\* cancelled; the error is in the error channel, the state is Active and the
\* channels are open.
C29_Witness ==
    /\ panic = "none"
    /\ state = "Active"
    /\ errEmits = 0
    /\ errBuf = << RunError >>
    /\ ~errClosed
    /\ ~doneClosed
    /\ dataCh # NilChan /\ ~chClosed[dataCh]
    /\ \E s \in Starters : pcRun[s] = "done" /\ ~ctxDone[s]

\* C30: for each of the seven defined statuses exactly one of IsActive and
\* IsTerminal is true, New, PartiallyFilled and PendingCancel being the active
\* ones and Filled, Cancelled, Rejected and Expired the terminal ones, and
\* IsOpen is true exactly when the status is active.
C30_StatusPartition ==
    call.op = "Order" =>
        /\ call.order.Status \in 0..6 => (call.active /\ ~call.terminal) \/ (~call.active /\ call.terminal)
        /\ call.order.Status \in {0, 1, 6} => call.active
        /\ call.order.Status \in {2, 3, 4, 5} => call.terminal
        /\ call.open <=> call.active

\* C30 witness: an order in PendingCancel is open, active and not terminal.
C30_Witness ==
    /\ call.op = "Order"
    /\ call.order.Status = StatusPendingCancel
    /\ call.open
    /\ call.active
    /\ ~call.terminal

====
